---- MODULE Spec2Model ----
(***************************************************************************)
(* ascii-pic: conversion of a raster image to ASCII art.                   *)
(*                                                                         *)
(* JavaScript values are records [t, n, d, s]: t is the typeof tag, a      *)
(* number is the rational n/d (d = 0 is NaN), a string carries s.  Text is *)
(* a sequence of UTF-16 code units, each written as a one-glyph token.     *)
(***************************************************************************)
EXTENDS Integers, Sequences, FiniteSets, TLC

VARIABLES pc, op, args, local, ret, files, registry

vars == <<pc, op, args, local, ret, files, registry>>

----------------------------------------------------------------------------
(* JavaScript values *)

Num(n, d) == [t |-> "number", n |-> n, d |-> d, s |-> ""]
Whole(n) == Num(n, 1)
NaN == Num(0, 0)
Str(s) == [t |-> "string", n |-> 0, d |-> 1, s |-> s]
Bool(b) == [t |-> "boolean", n |-> IF b THEN 1 ELSE 0, d |-> 1, s |-> ""]
Undefined == [t |-> "undefined", n |-> 0, d |-> 1, s |-> ""]
Null == [t |-> "object", n |-> 0, d |-> 1, s |-> "null"]
\* a field the caller did not put in the options object
Absent == [t |-> "absent", n |-> 0, d |-> 1, s |-> ""]

IsNaN(x) == x.t = "number" /\ x.d = 0
\* x < y on numbers: every comparison with NaN is false
Less(x, y) == /\ x.d # 0
              /\ y.d # 0
              /\ x.n * y.d < y.n * x.d
IsInteger(x) == x.t = "number" /\ x.d # 0 /\ x.n % x.d = 0
\* truthiness of the option values used here
Truthy(x) == CASE x.t = "boolean" -> x.n = 1
               [] x.t = "number" -> x.d # 0 /\ x.n # 0
               [] x.t = "string" -> x.s # ""
               [] OTHER -> FALSE

----------------------------------------------------------------------------
(* charsets.js *)

CharsetNames == <<"detailed", "blocks", "classic", "simple", "minimal",
                  "numbers", "binary", "retro">>

CHARSETS ==
  [detailed |-> <<"@", "%", "#", "*", "+", "=", "-", ":", ".", " ">>,
   blocks   |-> <<"U2588", "U2589", "U258A", "U258B", "U258C", "U258D",
                  "U258E", "U258F", " ">>,
   classic  |-> <<"@", "#", "S", "%", "?", "*", "+", ";", ":", ",", ".">>,
   simple   |-> <<"U2588", "U2588", "U2593", "U2592", "U2591", " ">>,
   minimal  |-> <<"U2588", "U2593", "U2591", " ">>,
   numbers  |-> <<"9", "8", "7", "6", "5", "4", "3", "2", "1", "0", " ">>,
   binary   |-> <<"U2588", " ">>,
   retro    |-> <<"U2593", "U2592", "U2591", " ">>]

\* properties every object inherits from Object.prototype, with the
\* "length" the inherited value has (-1: it has no numeric length)
ProtoLength ==
  [constructor |-> 1, toString |-> 0, valueOf |-> 0, hasOwnProperty |-> 1,
   isPrototypeOf |-> 1, propertyIsEnumerable |-> 1, toLocaleString |-> 0,
   __defineGetter__ |-> 2, __defineSetter__ |-> 2, __lookupGetter__ |-> 1,
   __lookupSetter__ |-> 1, __proto__ |-> -1]

Range(seq) == {seq[i] : i \in 1..Len(seq)}

getAvailableCharsets == CharsetNames

\* the property key a value is converted to when it indexes an object
PropertyKey(name) == CASE name.t = "string" -> name.s
                       [] name.t = "undefined" -> "undefined"
                       [] name.t = "object" -> name.s
                       [] name.t = "boolean" -> IF name.n = 1 THEN "true" ELSE "false"
                       [] OTHER -> "<number>"  \* digits: never a property here

\* CHARSETS[name]: an own property, else an inherited one, else undefined.
\* The object is module state: registry is what it holds now.
Lookup(name) ==
  LET key == PropertyKey(name) IN
  IF key \in DOMAIN registry
    THEN [kind |-> "string", chars |-> registry[key], length |-> Len(registry[key])]
    ELSE IF key \in DOMAIN ProtoLength
      THEN [kind |-> "inherited", chars |-> <<>>, length |-> ProtoLength[key]]
      ELSE [kind |-> "undefined", chars |-> <<>>, length |-> -1]

getCharset(name) ==
  LET found == Lookup(name) IN
  IF found.kind = "undefined"
    THEN [ok |-> FALSE, error |-> "Unknown charset", value |-> found]
    ELSE [ok |-> TRUE, error |-> "", value |-> found]

isValidCharset(name) == PropertyKey(name) \in DOMAIN registry

----------------------------------------------------------------------------
(* utils.js *)

Fields == {"width", "charset", "contrast", "aspectRatio", "invert"}

defaults == [width |-> Whole(80), charset |-> Str("detailed"),
             contrast |-> Num(12, 10), aspectRatio |-> Num(5, 10),
             invert |-> Bool(FALSE)]

\* the spread written in the other order: { ...options, ...defaults }
MergeDefaultsLast(options) == defaults

\* { ...defaults, ...options }
Merge(options) ==
  [f \in Fields |-> IF options[f] = Absent THEN defaults[f] ELSE options[f]]

OutOfRange(x, lo, hi) == \/ x.t # "number"
                         \/ Less(x, lo)
                         \/ Less(hi, x)

Validate(options) ==
  LET validated == Merge(options) IN
  IF OutOfRange(validated.width, Whole(10), Whole(500))
    THEN [ok |-> FALSE, error |-> "Width must be a number between 10 and 500",
          value |-> validated]
  ELSE IF OutOfRange(validated.contrast, Num(1, 10), Whole(5))
    THEN [ok |-> FALSE, error |-> "Contrast must be a number between 0.1 and 5.0",
          value |-> validated]
  ELSE IF OutOfRange(validated.aspectRatio, Num(1, 10), Whole(2))
    THEN [ok |-> FALSE,
          error |-> "Aspect ratio must be a number between 0.1 and 2.0",
          value |-> validated]
  ELSE [ok |-> TRUE, error |-> "", value |-> validated]

\* a validator that also insists on a string charset
validateOptionsTypedCharset(options) ==
  IF Merge(options).charset.t # "string"
    THEN [ok |-> FALSE, error |-> "Charset must be a string",
          value |-> Merge(options)]
    ELSE Validate(options)

validateOptions(options) == Validate(options)

----------------------------------------------------------------------------
(* exact arithmetic on naturals too large for a machine word: little-endian *)
(* digits in base 10000, no leading zero digit, <<>> is zero                *)

RECURSIVE BigMulCarry(_, _, _, _)
BigMulCarry(a, k, i, carry) ==
  IF i > Len(a)
    THEN IF carry = 0 THEN <<>> ELSE <<carry>>
    ELSE LET p == a[i] * k + carry IN
         <<p % 10000>> \o BigMulCarry(a, k, i + 1, p \div 10000)

\* a * k, for 0 <= k < 10000
BigMul(a, k) == IF k = 0 THEN <<>> ELSE BigMulCarry(a, k, 1, 0)

\* a * k^e
RECURSIVE BigMulPow(_, _, _)
BigMulPow(a, k, e) == IF e = 0 THEN a ELSE BigMulPow(BigMul(a, k), k, e - 1)

RECURSIVE BigLeqFrom(_, _, _)
BigLeqFrom(a, b, i) ==
  IF i = 0 THEN TRUE
  ELSE IF a[i] # b[i] THEN a[i] < b[i]
  ELSE BigLeqFrom(a, b, i - 1)

BigLeq(a, b) == IF Len(a) # Len(b) THEN Len(a) < Len(b)
                ELSE BigLeqFrom(a, b, Len(a))

RECURSIVE GCD(_, _)
GCD(a, b) == IF b = 0 THEN a ELSE GCD(b, a % b)

----------------------------------------------------------------------------
(* converter.js: the brightness-to-character mapper *)

\* the characters String(undefined) adds to the text
UndefinedText == <<"u", "n", "d", "e", "f", "i", "n", "e", "d">>

\* j <= brightness * M, where brightness is (v / 255) ^ (1 / contrast),
\* clamped to [0, 1] and replaced by 1 - brightness when invert is set.
\* With contrast = cn / cd in lowest terms:
\*   j / M <= (v/255)^(cd/cn)      iff  j^cn * 255^cd <= v^cd * M^cn
\*   j / M <= 1 - (v/255)^(cd/cn)  iff  v^cd * M^cn <= (M-j)^cn * 255^cd
\* The comparison is exact: the rounding of the double-precision
\* intermediate values is not represented.  The clamp to [0, 1] is the
\* identity on exact values, so it leaves the comparison as it is.
\* the comparison with the inversion applied to the pixel, before the
\* contrast curve, instead of to the adjusted brightness
AtLeastInvertFirst(v, contrast, invert, M, j) ==
  LET g == GCD(contrast.n, contrast.d)
      cn == contrast.n \div g
      cd == contrast.d \div g
      w == IF invert THEN 255 - v ELSE v
  IN BigLeq(BigMulPow(BigMulPow(<<1>>, j, cn), 255, cd),
            BigMulPow(BigMulPow(<<1>>, w, cd), M, cn))

AtLeast(v, contrast, invert, M, j) ==
  LET g == GCD(contrast.n, contrast.d)
      cn == contrast.n \div g
      cd == contrast.d \div g
      pixel == BigMulPow(BigMulPow(<<1>>, v, cd), M, cn)
  IN IF invert
       THEN BigLeq(pixel, BigMulPow(BigMulPow(<<1>>, M - j, cn), 255, cd))
       ELSE BigLeq(BigMulPow(BigMulPow(<<1>>, j, cn), 255, cd), pixel)

\* Math.floor(brightness * (charset.length - 1)), with M = charset.length - 1
RECURSIVE FloorFrom(_, _, _, _, _)
FloorFrom(v, contrast, invert, M, j) ==
  IF j = 0 \/ AtLeast(v, contrast, invert, M, j) THEN j
  ELSE FloorFrom(v, contrast, invert, M, j - 1)

\* the index scaled by charset.length instead of charset.length - 1
CharIndexFullLength(v, contrast, invert, M) ==
  FloorFrom(v, contrast, invert, M + 1, M + 1)

CharIndex(v, contrast, invert, M) == FloorFrom(v, contrast, invert, M, M)

\* the index used without the reversal
CharPositionUnreversed(length, charIndex) == charIndex

\* charset.length - 1 - charIndex
CharPosition(length, charIndex) == length - 1 - charIndex

\* the characters one pixel adds to the text: charset[position], which is
\* undefined when the index is NaN, when it is outside the string, or when
\* the charset is not a string
MapPixel(v, opts, charset) ==
  IF charset.kind # "string" \/ IsNaN(opts.contrast)
    THEN UndefinedText
    ELSE LET position == CharPosition(charset.length,
                           CharIndex(v, opts.contrast, Truthy(opts.invert),
                                     charset.length - 1))
         IN IF position \in 0..(charset.length - 1)
              THEN <<charset.chars[position + 1]>>
              ELSE UndefinedText

----------------------------------------------------------------------------
(* the mapper applied to one pixel, for every intensity, registered charset *)
(* and a range of contrasts                                                 *)

MaxIntensity == 255

\* a file system with nothing written
NoFiles == [readable |-> {}, written |-> {}]

MapContrasts == {Num(1, 10), Num(5, 10), Whole(1), Num(12, 10), Whole(2), Whole(5)}

InitMap ==
  /\ registry = CHARSETS
  /\ pc = "ready"
  /\ op = "mapPixel"
  /\ \E v \in 0..MaxIntensity, c \in MapContrasts, inv \in BOOLEAN,
        name \in Range(CharsetNames) :
       args = [pixel |-> v, charset |-> name,
               opts |-> [defaults EXCEPT !.contrast = c, !.invert = Bool(inv),
                                         !.charset = Str(name)]]
  /\ local = [charset |-> getCharset(Str("detailed")).value]
  /\ ret = [charIndex |-> 0, position |-> 0, text |-> <<>>]
  /\ files = NoFiles

\* one iteration of the inner loop of convertToAscii
MapOne ==
  /\ pc = "ready"
  /\ LET charset == getCharset(args.opts.charset).value
         idx == CharIndex(args.pixel, args.opts.contrast,
                          Truthy(args.opts.invert), charset.length - 1)
     IN /\ local' = [charset |-> charset]
        /\ ret' = [charIndex |-> idx,
                   position |-> CharPosition(charset.length, idx),
                   text |-> MapPixel(args.pixel, args.opts, charset)]
  /\ pc' = "mapped"
  /\ UNCHANGED <<op, args, files, registry>>

NextMap == MapOne

SpecMap == InitMap /\ [][NextMap]_vars

\* the position the mapper computes for intensity v under the options of
\* the current state
PositionOf(v) ==
  LET charset == getCharset(args.opts.charset).value
  IN CharPosition(charset.length,
                  CharIndex(v, args.opts.contrast, Truthy(args.opts.invert),
                            charset.length - 1))

MappedPlain == pc = "mapped" /\ ~Truthy(args.opts.invert)

\* C2 as stated: with invert=false the glyph position is non-decreasing in
\* the pixel intensity, intensity 0 selects the first (darkest) glyph and
\* intensity 255 the last (lightest) glyph.
C2_PositionNonDecreasing ==
  MappedPlain =>
    /\ args.pixel < MaxIntensity => ret.position <= PositionOf(args.pixel + 1)
    /\ args.pixel = 0 => ret.position = 0
    /\ args.pixel = MaxIntensity => ret.position = local.charset.length - 1

\* C2 amended: with invert=false the glyph position is non-increasing in the
\* pixel intensity; intensity 0 selects the last (lightest) glyph of the
\* charset and intensity 255 the first (darkest) glyph.
C2_PositionNonIncreasing ==
  MappedPlain =>
    /\ args.pixel < MaxIntensity => ret.position >= PositionOf(args.pixel + 1)
    /\ args.pixel = 0 =>
         /\ ret.position = local.charset.length - 1
         /\ ret.text = <<local.charset.chars[local.charset.length]>>
    /\ args.pixel = MaxIntensity =>
         /\ ret.position = 0
         /\ ret.text = <<local.charset.chars[1]>>

\* a plain mapping where one more unit of intensity moves the glyph towards
\* the start of the charset
C2_Witness ==
  /\ MappedPlain
  /\ args.pixel < MaxIntensity
  /\ args.opts.contrast = Num(12, 10)
  /\ ret.position > PositionOf(args.pixel + 1)

\* C4: for every registered charset, intensity, contrast in [0.1,5.0] and
\* both values of invert, the glyph position lies in 0..N-1, and the
\* character added to the text is the glyph of the charset at that position.
C4_PositionInCharset ==
  pc = "mapped" =>
    /\ ret.position \in 0..(Len(CHARSETS[args.charset]) - 1)
    /\ ret.text = <<CHARSETS[args.charset][ret.position + 1]>>
    /\ ret.text[1] \in Range(CHARSETS[args.charset])

\* white, inverted, lands on the last glyph; the extreme of the range
C4_Witness ==
  /\ pc = "mapped"
  /\ Truthy(args.opts.invert)
  /\ args.pixel = MaxIntensity
  /\ args.opts.contrast = Num(1, 10)
  /\ ret.position = Len(CHARSETS[args.charset]) - 1

----------------------------------------------------------------------------
(* validateOptions applied to one options object *)

WidthInputs == {Absent, Whole(5), Whole(10), Whole(20), Whole(100), Whole(500),
                Whole(600), Num(21, 2), NaN, Str("20"), Undefined}
ContrastInputs == {Absent, Num(5, 100), Num(1, 10), Whole(1), Whole(5),
                   Whole(6), NaN, Str("1"), Null}
AspectRatioInputs == {Absent, Num(5, 100), Num(1, 10), Whole(1), Whole(2),
                      Whole(3), NaN, Str("1")}
CharsetInputs == {Absent, Str("blocks"), Str("nonexistent"), Whole(5), Null,
                  Undefined}
InvertInputs == {Absent, Bool(TRUE)}

InitValidate ==
  /\ registry = CHARSETS
  /\ pc = "ready"
  /\ op = "validateOptions"
  /\ \E w \in WidthInputs, c \in ContrastInputs, a \in AspectRatioInputs,
        cs \in CharsetInputs, inv \in InvertInputs :
       args = [options |-> [width |-> w, charset |-> cs, contrast |-> c,
                            aspectRatio |-> a, invert |-> inv]]
  /\ local = [charset |-> getCharset(Str("detailed")).value]
  /\ ret = [ok |-> FALSE, error |-> "", value |-> defaults]
  /\ files = NoFiles

ValidateCall ==
  /\ pc = "ready"
  /\ ret' = validateOptions(args.options)
  /\ pc' = "validated"
  /\ UNCHANGED <<op, args, local, files, registry>>

NextValidate == ValidateCall

SpecValidate == InitValidate /\ [][NextValidate]_vars

\* lo <= x <= hi for a number x that is not NaN
Within(x, lo, hi) == /\ x.t = "number"
                     /\ x.d # 0
                     /\ lo.n * x.d <= x.n * lo.d
                     /\ x.n * hi.d <= hi.n * x.d

\* the value validation works on: the supplied one, else the documented default
Supplied(options, f, documented) ==
  IF options[f] = Absent THEN documented ELSE options[f]

NumbersInRange(options) ==
  /\ Within(Supplied(options, "width", Whole(80)), Whole(10), Whole(500))
  /\ Within(Supplied(options, "contrast", Num(12, 10)), Num(1, 10), Whole(5))
  /\ Within(Supplied(options, "aspectRatio", Num(5, 10)), Num(1, 10), Whole(2))

\* C5: validateOptions rejects, never clamps: when it returns, width is an
\* integer in [10,500], contrast is in [0.1,5.0] and aspectRatio is in
\* [0.1,2.0], each equal to the supplied value.
C5_ReturnsOnlyInRange ==
  pc = "validated" /\ ret.ok =>
    /\ IsInteger(ret.value.width)
    /\ Within(ret.value.width, Whole(10), Whole(500))
    /\ Within(ret.value.contrast, Num(1, 10), Whole(5))
    /\ Within(ret.value.aspectRatio, Num(1, 10), Whole(2))
    /\ \A f \in {"width", "contrast", "aspectRatio"} :
         args.options[f] # Absent => ret.value[f] = args.options[f]

\* C6: with no field supplied the result is exactly the documented defaults;
\* with in-range fields supplied the result has all five fields, the
\* supplied value for each supplied field and the default for the others.
C6_DefaultsMerged ==
  pc = "validated" /\ NumbersInRange(args.options) =>
    /\ ret.ok
    /\ DOMAIN ret.value = Fields
    /\ ret.value.width = Supplied(args.options, "width", Whole(80))
    /\ ret.value.charset = Supplied(args.options, "charset", Str("detailed"))
    /\ ret.value.contrast = Supplied(args.options, "contrast", Num(12, 10))
    /\ ret.value.aspectRatio = Supplied(args.options, "aspectRatio", Num(5, 10))
    /\ ret.value.invert = Supplied(args.options, "invert", Bool(FALSE))

\* width and charset supplied, the other three fields defaulted
C6_Witness ==
  /\ pc = "validated"
  /\ args.options = [width |-> Whole(100), charset |-> Str("blocks"),
                     contrast |-> Absent, aspectRatio |-> Absent,
                     invert |-> Absent]
  /\ ret.ok
  /\ ret.value.contrast = Num(12, 10)
  /\ ret.value.width = Whole(100)

NonStringCharset == /\ args.options.charset # Absent
                    /\ args.options.charset.t # "string"

\* C7 as stated: validateOptions fails whenever the supplied charset is not
\* a string.
C7_NonStringCharsetRejected ==
  pc = "validated" /\ NonStringCharset => ~ret.ok

\* C7 amended: validateOptions does not check the charset field: with the
\* numeric fields in range it returns the supplied charset unchanged even
\* when it is not a string, and every error it raises is about width,
\* contrast or aspect ratio.
C7_CharsetNotChecked ==
  pc = "validated" /\ NonStringCharset =>
    /\ NumbersInRange(args.options) =>
         ret.ok /\ ret.value.charset = args.options.charset
    /\ ~ret.ok =>
         ret.error \in {"Width must be a number between 10 and 500",
                        "Contrast must be a number between 0.1 and 5.0",
                        "Aspect ratio must be a number between 0.1 and 2.0"}

\* a number as charset, everything else in range, is returned
C7_Witness ==
  /\ pc = "validated"
  /\ args.options.charset = Whole(5)
  /\ args.options.width = Whole(20)
  /\ ret.ok
  /\ ret.value.charset = Whole(5)

----------------------------------------------------------------------------
(* getCharset and isValidCharset applied to one name, in either order *)

NameInputs ==
  {Str(n) : n \in Range(CharsetNames) \cup DOMAIN ProtoLength
                  \cup {"nonexistent", "", "Detailed", "DETAILED", "simple ",
                        "ascii", "undefined", "null"}}
    \cup {Whole(5), Null, Undefined, Bool(TRUE)}

NotCalled == [ok |-> FALSE, error |-> "not called", value |-> Lookup(Undefined)]

InitCharset ==
  /\ registry = CHARSETS
  /\ pc = "ready"
  /\ op = "charsets"
  /\ \E name \in NameInputs : args = [name |-> name]
  /\ local = [got |-> FALSE, asked |-> FALSE]
  /\ ret = [get |-> NotCalled, valid |-> FALSE]
  /\ files = NoFiles

GetCharsetCall ==
  /\ ~local.got
  /\ ret' = [ret EXCEPT !.get = getCharset(args.name)]
  /\ local' = [local EXCEPT !.got = TRUE]
  /\ pc' = IF local.asked THEN "looked up" ELSE pc
  /\ UNCHANGED <<op, args, files, registry>>

IsValidCharsetCall ==
  /\ ~local.asked
  /\ ret' = [ret EXCEPT !.valid = isValidCharset(args.name)]
  /\ local' = [local EXCEPT !.asked = TRUE]
  /\ pc' = IF local.got THEN "looked up" ELSE pc
  /\ UNCHANGED <<op, args, files, registry>>

NextCharset == GetCharsetCall \/ IsValidCharsetCall

SpecCharset == InitCharset /\ [][NextCharset]_vars

Registered(name) == name.t = "string" /\ name.s \in Range(getAvailableCharsets)

\* C9: getCharset fails for every name that is not registered and returns
\* the palette for every registered name; isValidCharset is true exactly for
\* the registered names, so the two always agree.
C9_LookupAgreesWithRegistry ==
  pc = "looked up" =>
    /\ ret.valid = Registered(args.name)
    /\ ret.get.ok = Registered(args.name)
    /\ ret.get.ok => ret.get.value.chars = CHARSETS[args.name.s]
    /\ ret.get.ok = ret.valid

----------------------------------------------------------------------------
(* utils.js: the checks on a path input *)

supportedExtensions == {".jpg", ".jpeg", ".png", ".webp", ".gif", ".tiff",
                        ".tif", ".bmp", ".svg", ".avif", ".heif", ".heic"}

\* ext is path.extname(filePath).toLowerCase()
isSupportedImageFormat(input) == input.ext \in supportedExtensions

\* fs.access(filePath, R_OK) succeeded
fileExists(input) == input.name \in files.readable

----------------------------------------------------------------------------
(* the images and inputs of the model *)

\* the largest width tried beyond the widths 10 and 20 of the tests
MaxColumns == 20

\* what a decoder finds in the input: "none" cannot be decoded
Images ==
  [square   |-> [imgWidth |-> 100, imgHeight |-> 100],
   gradient |-> [imgWidth |-> 64, imgHeight |-> 32],
   banner   |-> [imgWidth |-> 400, imgHeight |-> 10]]

Buffer(image) == [kind |-> "buffer", name |-> "[Buffer]", ext |-> "",
                  image |-> image]
Path(name, ext, image) == [kind |-> "string", name |-> name, ext |-> ext,
                           image |-> image]

Inputs == {Buffer("square"), Buffer("none"),
           Path("/path/that/does/not/exist.jpg", ".jpg", "none"),
           Path("notes.txt", ".txt", "none"),
           Path("photo.PNG", ".png", "gradient"),
           Path("broken.png", ".png", "none"),
           Path("banner.jpeg", ".jpeg", "banner")}

ReadablePaths == {"notes.txt", "photo.PNG", "broken.png", "banner.jpeg"}

\* output paths: one in a directory that does not exist, and one in a
\* directory another process empties
OutputPaths == {"art.txt", "/no/such/dir/art.txt", "/tmp/scratch/art.txt"}
UnwritablePaths == {"/no/such/dir/art.txt"}
VolatilePaths == {"/tmp/scratch/art.txt"}

----------------------------------------------------------------------------
(* converter.js: decode, resize, map *)

IntValue(x) == x.n \div x.d

\* the height computed without the aspect ratio correction
TargetHeightNoAspect(metadata, opts) ==
  IF IsNaN(opts.width)
    THEN NaN
    ELSE Whole((metadata.imgHeight * opts.width.n)
                 \div (metadata.imgWidth * opts.width.d))

\* Math.floor((imgHeight / imgWidth) * targetWidth * opts.aspectRatio)
TargetHeight(metadata, opts) ==
  IF IsNaN(opts.width) \/ IsNaN(opts.aspectRatio)
    THEN NaN
    ELSE Whole((metadata.imgHeight * opts.width.n * opts.aspectRatio.n)
                 \div (metadata.imgWidth * opts.width.d * opts.aspectRatio.d))

\* sharp's resize() takes positive integers only, and throws otherwise
ResizeAccepts(targetWidth, targetHeight) ==
  /\ IsInteger(targetWidth) /\ targetWidth.n > 0
  /\ IsInteger(targetHeight) /\ targetHeight.n > 0

Min(a, b) == IF a < b THEN a ELSE b
Max(a, b) == IF a > b THEN a ELSE b

\* The raw grayscale buffer sharp returns for a width x height resize with
\* fit "fill": one byte per pixel, row-major.  The resampling itself is the
\* library's; here a pixel is the average of the source over its cell.
\*   square:   white 100x100 with a black 90x90 inset at (5,5)
\*   gradient: black at the top left to white at the bottom right
\*   banner:   uniform mid grey
Resampled(image, width, height) ==
  [pixelIndex \in 0..(width * height - 1) |->
     LET x == pixelIndex % width
         y == pixelIndex \div width
     IN CASE image = "square" ->
               LET ox == Max(0, Min((x + 1) * 100, 95 * width)
                                  - Max(x * 100, 5 * width))
                   oy == Max(0, Min((y + 1) * 100, 95 * height)
                                  - Max(y * 100, 5 * height))
               IN MaxIntensity - (MaxIntensity * ox * oy) \div 10000
          [] image = "gradient" ->
               (MaxIntensity * (x + y)) \div (width + height - 2)
          [] OTHER -> 128]

\* the inner loop: the characters of row y from column x on
RECURSIVE RowFrom(_, _, _, _, _, _)
RowFrom(data, width, y, x, opts, charset) ==
  IF x >= width THEN <<>>
  ELSE MapPixel(data[y * width + x], opts, charset)
         \o RowFrom(data, width, y, x + 1, opts, charset)

\* the outer loop: rows y.. of the text, each followed by a newline
RECURSIVE RowsFrom(_, _, _, _, _, _)
RowsFrom(data, width, height, y, opts, charset) ==
  IF y >= height THEN <<>>
  ELSE RowFrom(data, width, y, 0, opts, charset) \o <<"\n">>
         \o RowsFrom(data, width, height, y + 1, opts, charset)

\* the error convertToAscii rethrows from its catch block
ConversionError(message) ==
  CASE message = "Input file is missing" -> "Unable to read image file"
    [] message = "Input file contains unsupported image format" ->
         "Unsupported or corrupted image format"
    [] OTHER -> "Image conversion failed"

\* what sharp's metadata() rejects with for an input it cannot decode
DecodeError(input) ==
  IF input.kind = "string"
    THEN "Input file contains unsupported image format"
    ELSE "Input buffer contains unsupported image format"

ConvertPixels(data, width, height, opts, charset) ==
  RowsFrom(data, width, height, 0, opts, charset)

----------------------------------------------------------------------------
(* converter.js: convertToAscii and convertAndSave, one call at a time.     *)
(* An action runs from one await to the next.                               *)

WidthOptions == {Whole(10), Whole(20), Whole(MaxColumns), Whole(5), Num(21, 2),
                 NaN}
CharsetOptions == {Absent, Str("simple"), Str("nonexistent"),
                   Str("constructor"), Whole(5)}
ContrastOptions == {Absent, Whole(1), NaN}
AspectRatioOptions == {Absent, Whole(1), NaN}
InvertOptions == {Absent, Bool(TRUE)}

NoResult == [success |-> FALSE, error |-> "", lines |-> 0, characters |-> 0,
             fileSize |-> 0, processingTime |-> -1]
Pending == [kind |-> "pending", text |-> <<>>, message |-> "",
            result |-> NoResult]

Init ==
  /\ registry = CHARSETS
  /\ pc = "call"
  /\ op \in {"convertToAscii", "convertAndSave"}
  /\ \E input \in Inputs, w \in WidthOptions, cs \in CharsetOptions,
        c \in ContrastOptions, a \in AspectRatioOptions,
        inv \in InvertOptions, out \in OutputPaths :
       args = [input |-> input,
               outputPath |-> IF op = "convertAndSave" THEN out ELSE "",
               options |-> [width |-> w, charset |-> cs, contrast |-> c,
                            aspectRatio |-> a, invert |-> inv]]
  /\ local = [opts |-> defaults, charset |-> Lookup(Undefined),
              targetHeight |-> NaN, asciiArt |-> <<>>, stages |-> <<>>,
              failed |-> "none", now |-> 0]
  /\ ret = Pending
  /\ files = [readable |-> ReadablePaths, written |-> {}]

\* bytes of the text in UTF-8: the block characters take three
Utf8Length(text) ==
  Len(text) + 2 * Cardinality({i \in 1..Len(text) : Len(text[i]) > 1})

\* asciiArt.split("\n").length - 1
CountBreaks(text) == Cardinality({i \in 1..Len(text) : text[i] = "\n"})

\* a catch block that throws the error again instead of reporting it
CaughtRethrown(message, loc) ==
  [kind |-> "throw", text |-> <<>>, message |-> message, result |-> NoResult]

\* the catch block of convertAndSave
Caught(message, loc) ==
  [kind |-> "return", text |-> <<>>, message |-> "",
   result |-> [NoResult EXCEPT !.error = message,
                               !.processingTime = loc.now]]

\* convertToAscii throws: to the caller, or into the catch of convertAndSave
Throws(message, stage, loc) ==
  LET at == [loc EXCEPT !.failed = stage] IN
  /\ pc' = "done"
  /\ local' = at
  /\ ret' = IF op = "convertAndSave"
              THEN Caught(message, at)
              ELSE [Pending EXCEPT !.kind = "throw", !.message = message]

\* the first line break of text at or after position i, 0 when there is none
NextBreak(text, i) ==
  IF \E j \in i..Len(text) : text[j] = "\n"
    THEN CHOOSE j \in i..Len(text) :
           /\ text[j] = "\n"
           /\ \A k \in i..(j - 1) : text[k] # "\n"
    ELSE 0

\* text.split("\n"), from position i on
RECURSIVE SplitFrom(_, _)
SplitFrom(text, i) ==
  LET j == NextBreak(text, i) IN
  IF j = 0 THEN <<SubSeq(text, i, Len(text))>>
  ELSE <<SubSeq(text, i, j - 1)>> \o SplitFrom(text, j + 1)

Split(text) == SplitFrom(text, 1)

\* lines.join("\n")
RECURSIVE Join(_)
Join(lines) ==
  IF Len(lines) = 0 THEN <<>>
  ELSE IF Len(lines) = 1 THEN lines[1]
  ELSE lines[1] \o <<"\n">> \o Join(Tail(lines))

\* lines.slice(0, end) for an integer end >= 0
Slice(lines, end) == SubSeq(lines, 1, IF end < Len(lines) THEN end ELSE Len(lines))

\* "\n... (truncated)"
Marker == <<"\n", ".", ".", ".", " ", "(", "t", "r", "u", "n", "c", "a", "t",
            "e", "d", ")">>

\* a preview that keeps one line too many
PreviewOneMore(fullAscii, previewLines) ==
  LET lines == Split(fullAscii) IN
  Join(Slice(lines, previewLines + 1))
    \o (IF Len(lines) > previewLines THEN Marker ELSE <<>>)

\* previewAscii, after convertToAscii has returned fullAscii
Preview(fullAscii, previewLines) ==
  LET lines == Split(fullAscii) IN
  Join(Slice(lines, previewLines))
    \o (IF Len(lines) > previewLines THEN Marker ELSE <<>>)

\* convertToAscii returns its text: to the caller, to convertAndSave, which
\* goes on to saveToFile, or to previewAscii, which cuts it and returns
Returns(text, loc) ==
  IF op = "convertAndSave"
    THEN /\ pc' = "writeFile"
         /\ local' = [loc EXCEPT !.asciiArt = text]
         /\ ret' = ret
    ELSE /\ pc' = "done"
         /\ local' = [loc EXCEPT !.asciiArt = text]
         /\ ret' = [Pending EXCEPT
                      !.kind = "return",
                      !.text = IF op = "previewAscii"
                                 THEN Preview(text, args.previewLines)
                                 ELSE text]

\* the try block up to the first await: getCharset, sharp(input).metadata()
EnterTry(loc) ==
  LET found == getCharset(loc.opts.charset)
      at == [loc EXCEPT !.stages = @ \o <<"charset">>]
  IN IF ~found.ok
       THEN Throws(ConversionError(found.error), "charset", at)
       ELSE /\ pc' = "metadata"
            /\ local' = [at EXCEPT !.charset = found.value,
                                   !.stages = @ \o <<"decode">>]
            /\ ret' = ret

\* the call, up to its first await
Call ==
  /\ pc = "call"
  /\ LET checked == validateOptions(args.options)
         loc == [local EXCEPT !.stages = <<"options">>, !.now = @ + 1,
                              !.opts = checked.value]
     IN IF ~checked.ok
          THEN Throws(checked.error, "options", loc)
          ELSE IF args.input.kind = "string"
            THEN /\ pc' = "fileExists"
                 /\ local' = [loc EXCEPT !.stages = @ \o <<"exists">>]
                 /\ ret' = ret
            ELSE EnterTry(loc)
  /\ UNCHANGED <<op, args, files, registry>>

\* fileExists has answered
AfterFileExists ==
  /\ pc = "fileExists"
  /\ LET loc == [local EXCEPT !.now = @ + 1] IN
     IF ~fileExists(args.input)
       THEN Throws("File not found", "exists", loc)
       ELSE LET at == [loc EXCEPT !.stages = @ \o <<"extension">>] IN
            IF ~isSupportedImageFormat(args.input)
              THEN Throws("Unsupported image format", "extension", at)
              ELSE EnterTry(at)
  /\ UNCHANGED <<op, args, files, registry>>

\* metadata() has settled: compute the target size and start the resize
AfterMetadata ==
  /\ pc = "metadata"
  /\ LET loc == [local EXCEPT !.now = @ + 1] IN
     IF args.input.image = "none"
       THEN Throws(ConversionError(DecodeError(args.input)), "decode", loc)
       ELSE LET targetHeight == TargetHeight(Images[args.input.image], loc.opts)
                at == [loc EXCEPT !.targetHeight = targetHeight,
                                  !.stages = @ \o <<"resize">>]
            IN IF ~ResizeAccepts(loc.opts.width, targetHeight)
                 THEN Throws(ConversionError("Expected positive integer"),
                             "resize", at)
                 ELSE /\ pc' = "toBuffer"
                      /\ local' = at
                      /\ ret' = ret
  /\ UNCHANGED <<op, args, files, registry>>

\* toBuffer() has resolved with the pixels: map them all and return
AfterToBuffer ==
  /\ pc = "toBuffer"
  /\ LET width == IntValue(local.opts.width)
         height == IntValue(local.targetHeight)
         data == Resampled(args.input.image, width, height)
         loc == [local EXCEPT !.now = @ + 1, !.stages = @ \o <<"map">>]
     IN Returns(ConvertPixels(data, width, height, local.opts, local.charset),
                loc)
  /\ UNCHANGED <<op, args, files, registry>>

\* saveToFile: fs.writeFile has settled
AfterWriteFile ==
  /\ pc = "writeFile"
  /\ LET loc == [local EXCEPT !.now = @ + 1, !.stages = @ \o <<"write">>] IN
     IF args.outputPath \in UnwritablePaths
       THEN /\ pc' = "done"
            /\ local' = [loc EXCEPT !.failed = "write"]
            /\ ret' = Caught("Failed to save file",
                             [loc EXCEPT !.failed = "write"])
            /\ files' = files
       ELSE /\ pc' = "stat"
            /\ local' = loc
            /\ ret' = ret
            /\ files' = [files EXCEPT !.written = @ \cup {args.outputPath}]
  /\ UNCHANGED <<op, args, registry>>

\* another process removes the file that was just written
RemoveOutput ==
  /\ pc = "stat"
  /\ args.outputPath \in VolatilePaths \cap files.written
  /\ files' = [files EXCEPT !.written = @ \ {args.outputPath}]
  /\ UNCHANGED <<pc, op, args, local, ret, registry>>

\* fs.stat has settled
AfterStat ==
  /\ pc = "stat"
  /\ LET loc == [local EXCEPT !.now = @ + 1, !.stages = @ \o <<"stat">>] IN
     IF args.outputPath \notin files.written
       THEN /\ local' = [loc EXCEPT !.failed = "stat"]
            /\ ret' = Caught("ENOENT: no such file or directory",
                             [loc EXCEPT !.failed = "stat"])
       ELSE /\ local' = loc
            /\ ret' = [Pending EXCEPT
                         !.kind = "return",
                         !.result = [success |-> TRUE, error |-> "",
                                     lines |-> CountBreaks(local.asciiArt),
                                     characters |-> Len(local.asciiArt),
                                     fileSize |-> Utf8Length(local.asciiArt),
                                     processingTime |-> loc.now]]
  /\ pc' = "done"
  /\ UNCHANGED <<op, args, files, registry>>

Next == \/ Call
        \/ AfterFileExists
        \/ AfterMetadata
        \/ AfterToBuffer
        \/ AfterWriteFile
        \/ RemoveOutput
        \/ AfterStat

Spec == Init /\ [][Next]_vars

----------------------------------------------------------------------------
(* properties of a conversion *)

\* the mapper ran: local.asciiArt is the text convertToAscii returned
Converted == "map" \in Range(local.stages)

\* h rows of w characters, each followed by a line break and no other
WellFormed(text, w, h) ==
  /\ Len(text) = h * (w + 1)
  /\ \A i \in 1..Len(text) : (text[i] = "\n") <=> (i % (w + 1) = 0)

\* C1: for every validated option set and every resampled grid of width w
\* and height h >= 1, the text convertToAscii returns is h rows of exactly w
\* characters, each followed by one line break: its length is h*(w+1) and
\* the first line is as long as the requested width.
C1_RowsOfWidth ==
  Converted =>
    /\ IntValue(local.targetHeight) >= 1
    /\ WellFormed(local.asciiArt, IntValue(args.options.width),
                  IntValue(local.targetHeight))

SquareAtTwenty ==
  /\ args.input = Buffer("square")
  /\ args.options = [width |-> Whole(20), charset |-> Str("simple"),
                     contrast |-> Absent, aspectRatio |-> Absent,
                     invert |-> Absent]

\* C3 as stated: the 100x100 source with width=20, charset "simple" and
\* defaults otherwise gives 20 lines of 20 characters.
C3_TwentyLines ==
  Converted /\ SquareAtTwenty => WellFormed(local.asciiArt, 20, 20)

\* C3 amended: that conversion gives 10 lines of 20 characters, and in every
\* conversion the number of rows is floor(imgHeight / imgWidth * width *
\* aspectRatio), with aspectRatio 0.5 when it is not supplied.
C3_TenLines ==
  Converted =>
    /\ SquareAtTwenty => WellFormed(local.asciiArt, 20, 10)
    /\ LET image == Images[args.input.image]
           ratio == Supplied(args.options, "aspectRatio", Num(5, 10))
       IN /\ ~IsNaN(ratio)
          /\ CountBreaks(local.asciiArt) =
               (image.imgHeight * IntValue(args.options.width) * ratio.n)
                 \div (image.imgWidth * ratio.d)

C3_Witness ==
  /\ Converted
  /\ SquareAtTwenty
  /\ op = "convertToAscii"
  /\ pc = "done"
  /\ ret.kind = "return"
  /\ CountBreaks(ret.text) = 10

\* a failure the inputs of the call make certain
MustFail ==
  \/ ~validateOptions(args.options).ok
  \/ args.input.kind = "string" /\ args.input.name \notin ReadablePaths
  \/ args.input.kind = "string" /\ args.input.ext \notin supportedExtensions
  \/ args.input.image = "none"
  \/ ~isValidCharset(Supplied(args.options, "charset", Str("detailed")))
       /\ PropertyKey(args.options.charset) \notin DOMAIN ProtoLength
  \/ args.input.image = "banner"
  \/ args.outputPath \in UnwritablePaths

\* C8: convertAndSave never raises: every failure (options, input, charset,
\* decode/resize, write, stat) comes back as a result with success=false, an
\* error message and the processing time, and success=true is returned only
\* when the conversion, the write and the stat all succeeded.
C8_ReportsNeverRaises ==
  op = "convertAndSave" =>
    /\ ret.kind # "throw"
    /\ pc = "done" =>
         /\ ret.kind = "return"
         /\ ret.result.success <=> local.failed = "none"
         /\ MustFail => ~ret.result.success
         /\ ~ret.result.success =>
              /\ ret.result.error # ""
              /\ ret.result.processingTime >= 0
         /\ ret.result.success =>
              /\ Converted
              /\ args.outputPath \in files.written
              /\ {"write", "stat"} \subseteq Range(local.stages)

\* the write to a directory that does not exist is reported, not raised
C8_Witness ==
  /\ op = "convertAndSave"
  /\ pc = "done"
  /\ args.outputPath \in UnwritablePaths
  /\ local.failed = "write"
  /\ ret.kind = "return"
  /\ ~ret.result.success
  /\ ret.result.error = "Failed to save file"

\* C10: convertToAscii never returns partial or garbage output: it throws,
\* or it returns the complete text with every glyph from the registered
\* charset it was asked for; with an unregistered name it returns nothing.
C10_ThrowsOrComplete ==
  op = "convertToAscii" /\ pc = "done" =>
    \/ ret.kind = "throw"
    \/ /\ ret.kind = "return"
       /\ Registered(local.opts.charset)
       /\ WellFormed(ret.text, IntValue(local.opts.width),
                     IntValue(local.targetHeight))
       /\ \A i \in 1..Len(ret.text) :
            \/ ret.text[i] = "\n"
            \/ ret.text[i] \in Range(CHARSETS[local.opts.charset.s])

----------------------------------------------------------------------------
(* converter.js: previewAscii, one call at a time *)

\* the largest number of preview lines asked for
MaxPreviewLines == 6

PreviewWidths == {Whole(10), Whole(20), Whole(5)}
PreviewCharsets == {Absent, Str("simple"), Str("nonexistent"),
                    Str("constructor")}
PreviewAspectRatios == {Absent, Whole(1)}

InitPreview ==
  /\ registry = CHARSETS
  /\ pc = "call"
  /\ op = "previewAscii"
  /\ \E input \in Inputs, w \in PreviewWidths, cs \in PreviewCharsets,
        a \in PreviewAspectRatios, n \in 0..MaxPreviewLines :
       args = [input |-> input, outputPath |-> "", previewLines |-> n,
               options |-> [width |-> w, charset |-> cs, contrast |-> Absent,
                            aspectRatio |-> a, invert |-> Absent]]
  /\ local = [opts |-> defaults, charset |-> Lookup(Undefined),
              targetHeight |-> NaN, asciiArt |-> <<>>, stages |-> <<>>,
              failed |-> "none", now |-> 0]
  /\ ret = Pending
  /\ files = [readable |-> ReadablePaths, written |-> {}]

NextPreview == \/ Call
               \/ AfterFileExists
               \/ AfterMetadata
               \/ AfterToBuffer

SpecPreview == InitPreview /\ [][NextPreview]_vars

Previewed == op = "previewAscii" /\ pc = "done" /\ ret.kind = "return"

\* the rows of the art: the lines of the full text, without the empty
\* string split() leaves after the last line break
ArtRows == LET lines == Split(local.asciiArt) IN SubSeq(lines, 1, Len(lines) - 1)

HasMarker(text) ==
  /\ Len(text) >= Len(Marker)
  /\ SubSeq(text, Len(text) - Len(Marker) + 1, Len(text)) = Marker

\* the preview without the truncation marker
Body(text) ==
  IF HasMarker(text) THEN SubSeq(text, 1, Len(text) - Len(Marker)) ELSE text

\* text is the first k rows of the art, in order, with or without the line
\* break after the last of them
IsFirstRows(text, k) ==
  \/ text = Join(SubSeq(ArtRows, 1, k))
  \/ text = Join(SubSeq(ArtRows, 1, k)) \o <<"\n">>

\* C11: for every maxLines >= 0 the preview holds at most maxLines rows of
\* the art, they are the first rows of the full conversion in order, and the
\* truncation marker is appended whenever rows of the art were dropped.
C11_PreviewIsPrefix ==
  Previewed =>
    /\ \E k \in 0..args.previewLines :
         /\ k <= Len(ArtRows)
         /\ IsFirstRows(Body(ret.text), k)
    /\ Len(ArtRows) > args.previewLines => HasMarker(ret.text)

\* a preview that dropped rows: fewer lines asked for than the art has
C11_Witness ==
  /\ Previewed
  /\ args.previewLines = 2
  /\ Len(ArtRows) = 10
  /\ HasMarker(ret.text)
  /\ Body(ret.text) = Join(SubSeq(ArtRows, 1, 2))

\* C14: the marker is appended only when rows were dropped: when the art
\* has at most maxLines rows the preview holds every row and no marker.
C14_MarkerOnlyWhenDropped ==
  Previewed /\ Len(ArtRows) <= args.previewLines =>
    /\ ~HasMarker(ret.text)
    /\ IsFirstRows(ret.text, Len(ArtRows))

----------------------------------------------------------------------------
(* the inversion law, on the mapper applied to one pixel *)

\* b' * M = j exactly, for the adjusted brightness b' = (v/255)^(1/contrast)
CurveEquals(v, contrast, M, j) ==
  LET g == GCD(contrast.n, contrast.d)
      cn == contrast.n \div g
      cd == contrast.d \div g
  IN BigMulPow(BigMulPow(<<1>>, j, cn), 255, cd)
       = BigMulPow(BigMulPow(<<1>>, v, cd), M, cn)

MappedInverted == pc = "mapped" /\ Truthy(args.opts.invert)

\* C12: the glyph chosen under invert=true is the glyph the non-inverting
\* mapper chooses for brightness 1 - b', b' being the pixel's adjusted and
\* clamped brightness: with M = N - 1 and p = floor(b' * M) the index of the
\* same pixel without inversion, the index is floor((1 - b') * M), which is
\* M - p when b' * M is the integer p and M - p - 1 otherwise, and the glyph
\* is the charset's character at N - 1 - index.
C12_InversionLaw ==
  MappedInverted =>
    LET M == local.charset.length - 1
        p == CharIndex(args.pixel, args.opts.contrast, FALSE, M)
    IN /\ ret.charIndex = IF CurveEquals(args.pixel, args.opts.contrast, M, p)
                            THEN M - p
                            ELSE M - p - 1
       /\ ret.position = M - ret.charIndex
       /\ ret.text = <<local.charset.chars[ret.position + 1]>>

\* an inverted pixel whose adjusted brightness falls between two levels,
\* under a contrast curve that is not the identity
C12_Witness ==
  /\ MappedInverted
  /\ args.opts.contrast = Num(12, 10)
  /\ args.pixel = 100
  /\ LET M == local.charset.length - 1
         p == CharIndex(args.pixel, args.opts.contrast, FALSE, M)
     IN /\ ~CurveEquals(args.pixel, args.opts.contrast, M, p)
        /\ ret.charIndex = M - p - 1

----------------------------------------------------------------------------
(* two conversions in flight at once: convertToAscii is called twice, and   *)
(* each action resumes one of the calls at one of its awaits.  A call has   *)
(* its own arguments and block-scoped locals; the calls share the charset   *)
(* registry and the file system.                                            *)

Calls == {1, 2}

ConcurrentInputs == {Buffer("square"),
                     Path("photo.PNG", ".png", "gradient"),
                     Path("broken.png", ".png", "none"),
                     Path("/path/that/does/not/exist.jpg", ".jpg", "none")}

ConcurrentOptions ==
  {[width |-> w, charset |-> cs, contrast |-> Absent, aspectRatio |-> Absent,
    invert |-> Absent] :
     w \in {Whole(10), Whole(5)},
     cs \in {Str("simple"), Str("binary"), Str("nonexistent")}}

InitConcurrent ==
  /\ registry = CHARSETS
  /\ pc = [i \in Calls |-> "call"]
  /\ op = "convertToAscii"
  /\ args \in [Calls -> [input : ConcurrentInputs, options : ConcurrentOptions]]
  /\ local = [i \in Calls |->
                [opts |-> defaults, charset |-> Lookup(Undefined),
                 targetHeight |-> NaN, asciiArt |-> <<>>, stages |-> <<>>,
                 failed |-> "none", now |-> 0]]
  /\ ret = [i \in Calls |-> Pending]
  /\ files = [readable |-> ReadablePaths, written |-> {}]

\* the time of the latest step of any call
Clock == CHOOSE t \in {local[i].now : i \in Calls} :
           \A i \in Calls : local[i].now <= t

Thrown(message) == [Pending EXCEPT !.kind = "throw", !.message = message]
Returned(text) == [Pending EXCEPT !.kind = "return", !.text = text]

\* call i throws
ThrowsOf(i, message, stage, loc) ==
  /\ pc' = [pc EXCEPT ![i] = "done"]
  /\ local' = [local EXCEPT ![i] = [loc EXCEPT !.failed = stage]]
  /\ ret' = [ret EXCEPT ![i] = Thrown(message)]

\* call i reaches an await
AwaitsOf(i, at, loc) ==
  /\ pc' = [pc EXCEPT ![i] = at]
  /\ local' = [local EXCEPT ![i] = loc]
  /\ ret' = ret

\* call i returns its text
ReturnsOf(i, text, loc) ==
  /\ pc' = [pc EXCEPT ![i] = "done"]
  /\ local' = [local EXCEPT ![i] = [loc EXCEPT !.asciiArt = text]]
  /\ ret' = [ret EXCEPT ![i] = Returned(text)]

\* a charset kept in one variable of the module instead of one per call:
\* a call sees what the call started after it has looked up
CharsetShared(locals, i) ==
  LET later == {j \in Calls : j > i /\ "decode" \in Range(locals[j].stages)}
  IN IF later = {} THEN locals[i].charset
     ELSE locals[CHOOSE j \in later : TRUE].charset

\* const charset of call i: block-scoped, one binding per call
CharsetSeen(locals, i) == locals[i].charset

\* the try block of call i up to its first await
EnterTryOf(i, loc) ==
  LET found == getCharset(loc.opts.charset)
      at == [loc EXCEPT !.stages = @ \o <<"charset">>]
  IN IF ~found.ok
       THEN ThrowsOf(i, ConversionError(found.error), "charset", at)
       ELSE AwaitsOf(i, "metadata", [at EXCEPT !.charset = found.value,
                                               !.stages = @ \o <<"decode">>])

\* call i is made and runs to its first await
CallOf(i) ==
  /\ pc[i] = "call"
  /\ LET checked == validateOptions(args[i].options)
         loc == [local[i] EXCEPT !.stages = <<"options">>, !.now = Clock + 1,
                                 !.opts = checked.value]
     IN IF ~checked.ok
          THEN ThrowsOf(i, checked.error, "options", loc)
          ELSE IF args[i].input.kind = "string"
            THEN AwaitsOf(i, "fileExists",
                          [loc EXCEPT !.stages = @ \o <<"exists">>])
            ELSE EnterTryOf(i, loc)
  /\ UNCHANGED <<op, args, files, registry>>

\* fileExists has answered call i
AfterFileExistsOf(i) ==
  /\ pc[i] = "fileExists"
  /\ LET loc == [local[i] EXCEPT !.now = Clock + 1] IN
     IF ~fileExists(args[i].input)
       THEN ThrowsOf(i, "File not found", "exists", loc)
       ELSE LET at == [loc EXCEPT !.stages = @ \o <<"extension">>] IN
            IF ~isSupportedImageFormat(args[i].input)
              THEN ThrowsOf(i, "Unsupported image format", "extension", at)
              ELSE EnterTryOf(i, at)
  /\ UNCHANGED <<op, args, files, registry>>

\* metadata() of call i has settled
AfterMetadataOf(i) ==
  /\ pc[i] = "metadata"
  /\ LET loc == [local[i] EXCEPT !.now = Clock + 1] IN
     IF args[i].input.image = "none"
       THEN ThrowsOf(i, ConversionError(DecodeError(args[i].input)), "decode",
                     loc)
       ELSE LET targetHeight == TargetHeight(Images[args[i].input.image],
                                             loc.opts)
                at == [loc EXCEPT !.targetHeight = targetHeight,
                                  !.stages = @ \o <<"resize">>]
            IN IF ~ResizeAccepts(loc.opts.width, targetHeight)
                 THEN ThrowsOf(i, ConversionError("Expected positive integer"),
                               "resize", at)
                 ELSE AwaitsOf(i, "toBuffer", at)
  /\ UNCHANGED <<op, args, files, registry>>

\* toBuffer() of call i has resolved: the loops run to the end and it returns
AfterToBufferOf(i) ==
  /\ pc[i] = "toBuffer"
  /\ LET width == IntValue(local[i].opts.width)
         height == IntValue(local[i].targetHeight)
         data == Resampled(args[i].input.image, width, height)
         loc == [local[i] EXCEPT !.now = Clock + 1, !.stages = @ \o <<"map">>]
     IN ReturnsOf(i, ConvertPixels(data, width, height, local[i].opts,
                                   CharsetSeen(local, i)),
                  loc)
  /\ UNCHANGED <<op, args, files, registry>>

NextConcurrent == \E i \in Calls : \/ CallOf(i)
                                   \/ AfterFileExistsOf(i)
                                   \/ AfterMetadataOf(i)
                                   \/ AfterToBufferOf(i)

SpecConcurrent == InitConcurrent /\ [][NextConcurrent]_vars

\* convertToAscii(input, options) run with no other call in flight
Alone(input, options) ==
  LET checked == validateOptions(options)
      opts == checked.value
      found == getCharset(opts.charset)
  IN IF ~checked.ok THEN Thrown(checked.error)
     ELSE IF input.kind = "string" /\ ~fileExists(input)
       THEN Thrown("File not found")
     ELSE IF input.kind = "string" /\ ~isSupportedImageFormat(input)
       THEN Thrown("Unsupported image format")
     ELSE IF ~found.ok THEN Thrown(ConversionError(found.error))
     ELSE IF input.image = "none"
       THEN Thrown(ConversionError(DecodeError(input)))
     ELSE LET targetHeight == TargetHeight(Images[input.image], opts) IN
          IF ~ResizeAccepts(opts.width, targetHeight)
            THEN Thrown(ConversionError("Expected positive integer"))
            ELSE Returned(ConvertPixels(
                            Resampled(input.image, IntValue(opts.width),
                                      IntValue(targetHeight)),
                            IntValue(opts.width), IntValue(targetHeight),
                            opts, found.value))

\* the one-call specification ends a convertToAscii call as Alone says
AloneIsTheSingleCall ==
  op = "convertToAscii" /\ pc = "done" => ret = Alone(args.input, args.options)

\* C13: whatever the interleaving of two conversions, a call that has
\* settled has returned or thrown what the same call returns or throws when
\* run alone, two settled calls with identical input and options have
\* identical outcomes, and the charset registry is what it was at load.
C13_IndependentOfInterleaving ==
  /\ registry = CHARSETS
  /\ \A i \in Calls :
       pc[i] = "done" => ret[i] = Alone(args[i].input, args[i].options)
  /\ \A i, j \in Calls :
       pc[i] = "done" /\ pc[j] = "done" /\ args[i] = args[j] => ret[i] = ret[j]

\* call 1 has returned its text with another charset than call 2, which had
\* passed its lookup and its metadata() before call 1 was last resumed and
\* is still waiting for its pixels
C13_Witness ==
  /\ pc[1] = "done" /\ ret[1].kind = "return" /\ Len(ret[1].text) > 0
  /\ pc[2] = "toBuffer"
  /\ local[2].charset # local[1].charset
  /\ local[2].now < local[1].now

----------------------------------------------------------------------------
(* the order of the stages of a conversion *)

StageOrder == <<"options", "exists", "extension", "charset", "decode",
                "resize", "map">>

Rank(stage) == CHOOSE k \in 1..Len(StageOrder) : StageOrder[k] = stage

IsConversionStage(stage) == stage \in Range(StageOrder)

\* the stages of convertToAscii entered so far, in the order of entry
ConversionStages == SelectSeq(local.stages, IsConversionStage)

RequestedCharset == Supplied(args.options, "charset", Str("detailed"))

\* the request has what the stage rejects: numbers outside the documented
\* ranges, a path that cannot be read or has no image extension, a charset
\* name that is not registered, an input that is not an image
StageFails(stage) ==
  CASE stage = "options" -> ~NumbersInRange(args.options)
    [] stage = "exists" -> /\ args.input.kind = "string"
                           /\ args.input.name \notin files.readable
    [] stage = "extension" -> /\ args.input.kind = "string"
                              /\ args.input.ext \notin supportedExtensions
    [] stage = "charset" -> ~Registered(RequestedCharset)
    [] stage = "decode" -> args.input.image = "none"
    [] OTHER -> FALSE

InvalidRequest == \/ StageFails("options")
                  \/ StageFails("exists")
                  \/ StageFails("extension")
                  \/ StageFails("charset")

\* C15: the stages of convertToAscii are entered in the order option
\* validation, file existence, file extension, charset lookup, decode,
\* resize, mapping; the failure reported is that of the earliest stage that
\* fails; decode and resize are not started when the options, the input path
\* or the charset name are invalid; mapping starts only after the resize.
C15_StagesInOrder ==
  pc \in {"call", "fileExists", "metadata", "toBuffer", "writeFile", "stat",
          "done"} =>
    LET entered == ConversionStages IN
    /\ \A a, b \in 1..Len(entered) :
         a < b => Rank(entered[a]) < Rank(entered[b])
    /\ IsConversionStage(local.failed) =>
         \A k \in 1..(Rank(local.failed) - 1) : ~StageFails(StageOrder[k])
    /\ InvalidRequest => /\ "decode" \notin Range(entered)
                         /\ "resize" \notin Range(entered)
    /\ "map" \in Range(entered) => "resize" \in Range(entered)

====
